---- MODULE Spec2Model ----
(***************************************************************************)
(* dcdc (docker-container-domain-connector): the container cache of        *)
(* src/dcdc/application.py, its rebuild (Application.populate_cache) and   *)
(* the resolution rule (compose_project_rule) that answers A / AAAA        *)
(* queries from it.                                                        *)
(*                                                                         *)
(* Time is counted in ticks, TicksPerSec ticks to the second, so that the  *)
(* float readings of time.time() keep a sub-second part and int() is a     *)
(* real truncation.  The wall clock never runs backwards.                  *)
(***************************************************************************)
EXTENDS Integers, Sequences, FiniteSets, TLC

TicksPerSec == 2
MaxSeconds == 130

STALE_THRESHOLD == 60

\* ------------------------------------------------------------------------
\* Python values
\* ------------------------------------------------------------------------

\* None, told apart from every label value
None == "<None>"

\* str(x) as an f-string renders it
Format(x) == IF x = None THEN "None" ELSE x

\* dict.get(key, default)
Get(d, k, default) == IF k \in DOMAIN d THEN d[k] ELSE default

EmptyDict == [k \in {} |-> None]

\* d[k] = v
Put(d, k, v) == [x \in (DOMAIN d) \cup {k} |-> IF x = k THEN v ELSE d[x]]

\* int(x) of a float of x ticks: truncation towards zero, in seconds
IntOf(ticks) ==
    IF ticks >= 0 THEN ticks \div TicksPerSec ELSE -((-ticks) \div TicksPerSec)

\* ------------------------------------------------------------------------
\* Configuration: --root-domain and its normalisation in get_nserver
\* ------------------------------------------------------------------------

\* the default ".dcdc", as characters-or-chunks
RootDomainArg == <<".", "dcdc">>

RECURSIVE LStrip(_)
LStrip(s) == IF s # <<>> /\ Head(s) = "." THEN LStrip(Tail(s)) ELSE s

RECURSIVE RStrip(_)
RStrip(s) ==
    IF s # <<>> /\ s[Len(s)] = "." THEN RStrip(SubSeq(s, 1, Len(s) - 1)) ELSE s

RECURSIVE Join(_)
Join(s) == IF s = <<>> THEN "" ELSE Head(s) \o Join(Tail(s))

\* mutant: the root domain used as given, dots and all
ROOT_DOMAIN_Unstripped == Join(RootDomainArg)

\* self.args.root_domain.strip(".")
ROOT_DOMAIN == Join(RStrip(LStrip(RootDomainArg)))

\* ------------------------------------------------------------------------
\* The container runtime: containers and the snapshots list() can return
\* ------------------------------------------------------------------------

LabelProject == "com.docker.compose.project"
LabelService == "com.docker.compose.service"
LabelNumber == "com.docker.compose.container-number"

Net(v4, v6) == [IPAddress |-> v4, GlobalIPv6Address |-> v6]

Labels(project, service, number) ==
    LET all == [l \in {LabelProject, LabelService, LabelNumber} |->
                   IF l = LabelProject THEN project
                   ELSE IF l = LabelService THEN service ELSE number]
    IN  [l \in {x \in DOMAIN all : all[x] # None} |-> all[l]]

Web1 == [id |-> "c-web1", labels |-> Labels("shop", "web", "1"),
         networks |-> <<Net("10.0.0.5", "")>>]
Web2 == [id |-> "c-web2", labels |-> Labels("shop", "web", "2"),
         networks |-> <<Net("10.0.0.6", "fd00::6"), Net("10.1.0.6", "")>>]
Db1 == [id |-> "c-db1", labels |-> Labels("shop", "db", "1"),
        networks |-> <<Net("", "fd00::7")>>]
Plain == [id |-> "c-plain", labels |-> Labels(None, "web", "1"),
          networks |-> <<Net("10.0.0.9", "fd00::9")>>]
NoService == [id |-> "c-nosvc", labels |-> Labels("shop", None, "1"),
              networks |-> <<Net("10.0.0.8", "")>>]
NoNumber == [id |-> "c-nonum", labels |-> Labels("shop", "db", None),
             networks |-> <<Net("10.0.0.7", "")>>]
NoAddress == [id |-> "c-noaddr", labels |-> Labels("shop", "db", "2"),
              networks |-> <<Net("", "")>>]
Orphan == [id |-> "c-orphan", labels |-> Labels("shop", None, None),
           networks |-> <<Net("10.0.0.4", "")>>]

Snapshots ==
    { <<>>,
      <<Web1>>,
      <<Web1, Web2>>,
      <<Plain, Web1>>,
      <<Db1, Plain>>,
      <<NoAddress>>,
      <<NoService>>,
      <<Web1, NoNumber>>,
      <<NoAddress, Orphan>> }

QueryNames == {"web.shop.dcdc", "db.shop.dcdc", "None.shop.dcdc"}
QueryTypes == {"A", "AAAA"}

\* ------------------------------------------------------------------------
\* CachedContainer and the cache builder's loop body
\* ------------------------------------------------------------------------

CachedContainer(name, project, t) ==
    [container_ids |-> EmptyDict,
     container_name |-> name,
     project_name |-> project,
     ipv4_addresses |-> <<>>,
     ipv6_addresses |-> <<>>,
     last_updated |-> t]

\* the value of `container` before line 166 has run
NoContainer == CachedContainer(None, None, 0)

\* mutant: the project label read with a default of "", so never None
ProjectName_DefaultEmpty(labels) == Get(labels, LabelProject, "")

\* line 197: container_labels.get("com.docker.compose.project", None)
ProjectName(labels) == Get(labels, LabelProject, None)

\* lines 202-203
CacheKey(labels) ==
    Format(Get(labels, LabelService, None)) \o "." \o Format(ProjectName(labels))
        \o "." \o ROOT_DOMAIN

\* lines 223-230, over the networks in iteration order
RECURSIVE AddNetworks(_, _)
AddNetworks(rec, nets) ==
    IF nets = <<>> THEN rec
    ELSE LET network == Head(nets)
             ipv4_address == Get(network, "IPAddress", "")
             ipv6_address == Get(network, "GlobalIPv6Address", "")
             r4 == IF ipv4_address # ""
                   THEN [rec EXCEPT !.ipv4_addresses = Append(@, ipv4_address)]
                   ELSE rec
             r6 == IF ipv6_address # ""
                   THEN [r4 EXCEPT !.ipv6_addresses = Append(@, ipv6_address)]
                   ELSE r4
         IN  AddNetworks(r6, Tail(nets))

\* mutant: a container merged into an existing record renews its last_updated
ProcessContainer_Touch(cache, c, t) ==
    IF ProjectName(c.labels) = None
    THEN [cache |-> cache, error |-> ""]
    ELSE LET cache_key == CacheKey(c.labels)
             created == IF cache_key \in DOMAIN cache
                        THEN Put(cache, cache_key,
                                 [cache[cache_key] EXCEPT !.last_updated = t])
                        ELSE Put(cache, cache_key,
                                 CachedContainer(Get(c.labels, LabelService, None),
                                                 ProjectName(c.labels), t))
             cached_container == created[cache_key]
         IN  IF LabelNumber \notin DOMAIN c.labels
             THEN [cache |-> created, error |-> "KeyError"]
             ELSE LET withId == [cached_container EXCEPT
                                    !.container_ids = Put(@, c.labels[LabelNumber], c.id)]
                  IN  [cache |-> Put(created, cache_key, AddNetworks(withId, c.networks)),
                       error |-> ""]

\* One iteration of the loop of populate_cache (lines 195-230) on the local
\* cache, at clock reading t.  error is "KeyError" when line 220 raises.
ProcessContainer(cache, c, t) ==
    IF ProjectName(c.labels) = None
    THEN [cache |-> cache, error |-> ""]
    ELSE LET cache_key == CacheKey(c.labels)
             created == IF cache_key \in DOMAIN cache
                        THEN cache
                        ELSE Put(cache, cache_key,
                                 CachedContainer(Get(c.labels, LabelService, None),
                                                 ProjectName(c.labels), t))
             cached_container == created[cache_key]
         IN  IF LabelNumber \notin DOMAIN c.labels
             THEN [cache |-> created, error |-> "KeyError"]
             ELSE LET withId == [cached_container EXCEPT
                                    !.container_ids = Put(@, c.labels[LabelNumber], c.id)]
                  IN  [cache |-> Put(created, cache_key, AddNetworks(withId, c.networks)),
                       error |-> ""]

\* ------------------------------------------------------------------------
\* The resolution rule's computations
\* ------------------------------------------------------------------------

\* mutant: a record exactly at the threshold already counts as stale
IsStale_AtThreshold(now_, last_updated) ==
    now_ - last_updated >= STALE_THRESHOLD * TicksPerSec

\* mutant: the threshold one second too long
IsStale_Late(now_, last_updated) ==
    now_ - last_updated > (STALE_THRESHOLD + 1) * TicksPerSec

\* line 168: now - container.last_updated > 60
IsStale(now_, last_updated) == now_ - last_updated > STALE_THRESHOLD * TicksPerSec

\* mutant: math.floor in place of int
Ttl_Floor(now_, last_updated) ==
    STALE_THRESHOLD - ((now_ - last_updated) \div TicksPerSec)

\* line 176: 60 - int(now - container.last_updated)
Ttl(now_, last_updated) == STALE_THRESHOLD - IntOf(now_ - last_updated)

\* lines 177-185
RECURSIVE Answers(_, _, _, _)
Answers(rtype, name, ips, ttl_) ==
    IF ips = <<>> THEN <<>>
    ELSE <<[rtype |-> rtype, name |-> name, ip |-> Head(ips), ttl |-> ttl_]>>
         \o Answers(rtype, name, Tail(ips), ttl_)

\* mutant: the query type is not looked at, every query is answered as A
Response_AlwaysA(q, rec, ttl_) == Answers("A", q.name, rec.ipv4_addresses, ttl_)

Response(q, rec, ttl_) ==
    IF q.type = "A"
    THEN Answers("A", q.name, rec.ipv4_addresses, ttl_)
    ELSE Answers("AAAA", q.name, rec.ipv6_addresses, ttl_)

\* ------------------------------------------------------------------------
\* State
\* ------------------------------------------------------------------------

\* Invocations of compose_project_rule.  The serving layer hands the rule one
\* query at a time, so Spec runs the first handler only.
Handlers == {1, 2}
Serving == {1}

\* The clock readings the model lets time.time() take, in ticks: the start, a
\* sub-second later, ten seconds, the threshold to the tick, just over it, one
\* and two seconds over it, and long after.
Instants ==
    {0, 1, 10 * TicksPerSec,
     STALE_THRESHOLD * TicksPerSec, STALE_THRESHOLD * TicksPerSec + 1,
     (STALE_THRESHOLD + 1) * TicksPerSec, (STALE_THRESHOLD + 2) * TicksPerSec,
     MaxSeconds * TicksPerSec}

VARIABLES
    clock,            \* time.time(), in ticks
    container_cache,  \* self.container_cache
    pc,               \* each handler's position in the code
    query,            \* the query being handled: [name, type]
    container,        \* compose_project_rule's local `container`
    now,              \* compose_project_rule's local `now`
    ret,              \* where populate_cache returns to
    cache,            \* populate_cache's local `cache`
    todo,             \* the containers populate_cache has still to visit
    result,           \* what the rule handed to the serving layer
    calls,            \* populate_cache invocations of this query
    start_cache,      \* self.container_cache when the query arrived
    pre_cache,        \* self.container_cache when populate_cache was last entered
    listed,           \* outcome of the last docker.containers.list(): none/failed/ok
    snapshot,         \* the snapshot it returned
    source            \* the record the response's addresses were read from

vars ==
    <<clock, container_cache, pc, query, container, now, ret, cache, todo, result,
      calls, start_cache, pre_cache, listed, snapshot, source>>

locals == <<query, container, now, ret, cache, todo>>
ghosts == <<calls, start_cache, pre_cache, listed, snapshot, source>>

Pending == [kind |-> "pending", answers |-> <<>>, error |-> ""]
NoAnswer == [kind |-> "none", answers |-> <<>>, error |-> ""]
Raised(e) == [kind |-> "raised", answers |-> <<>>, error |-> e]
Answered(a) == [kind |-> "response", answers |-> a, error |-> ""]

\* setup (lines 80-85): the cache starts empty
Init ==
    /\ clock = 0
    /\ container_cache = EmptyDict
    /\ pc = [p \in Handlers |-> "idle"]
    /\ query = [p \in Handlers |-> [name |-> "", type |-> "A"]]
    /\ container = [p \in Handlers |-> NoContainer]
    /\ now = [p \in Handlers |-> 0]
    /\ ret = [p \in Handlers |-> ""]
    /\ cache = [p \in Handlers |-> EmptyDict]
    /\ todo = [p \in Handlers |-> <<>>]
    /\ result = [p \in Handlers |-> Pending]
    /\ calls = [p \in Handlers |-> 0]
    /\ start_cache = [p \in Handlers |-> EmptyDict]
    /\ pre_cache = [p \in Handlers |-> EmptyDict]
    /\ listed = [p \in Handlers |-> "none"]
    /\ snapshot = [p \in Handlers |-> <<>>]
    /\ source = [p \in Handlers |-> NoContainer]

\* ------------------------------------------------------------------------
\* Steps
\* ------------------------------------------------------------------------

\* time passes: the clock moves on to a later instant t
Advance(t) ==
    /\ t > clock
    /\ clock' = t
    /\ UNCHANGED <<container_cache, pc, locals, result, ghosts>>

\* self.populate_cache() is called, to return to `back`
CallPopulate(p, back) ==
    /\ pc' = [pc EXCEPT ![p] = "list"]
    /\ ret' = [ret EXCEPT ![p] = back]
    /\ calls' = [calls EXCEPT ![p] = @ + 1]
    /\ pre_cache' = [pre_cache EXCEPT ![p] = container_cache]

\* the rule returns r (or an exception leaves it) to the serving layer
Return(p, r) ==
    /\ pc' = [pc EXCEPT ![p] = "done"]
    /\ result' = [result EXCEPT ![p] = r]

\* A query (n, t) arrives and line 161 tests the cache for its name.
Query(p, n, t) ==
    /\ pc[p] \in {"idle", "done"}
    /\ query' = [query EXCEPT ![p] = [name |-> n, type |-> t]]
    /\ container' = [container EXCEPT ![p] = NoContainer]
    /\ now' = [now EXCEPT ![p] = 0]
    /\ cache' = [cache EXCEPT ![p] = EmptyDict]
    /\ todo' = [todo EXCEPT ![p] = <<>>]
    /\ result' = [result EXCEPT ![p] = Pending]
    /\ start_cache' = [start_cache EXCEPT ![p] = container_cache]
    /\ listed' = [listed EXCEPT ![p] = "none"]
    /\ snapshot' = [snapshot EXCEPT ![p] = <<>>]
    /\ source' = [source EXCEPT ![p] = NoContainer]
    /\ IF n \notin DOMAIN container_cache
       THEN /\ pc' = [pc EXCEPT ![p] = "list"]
            /\ ret' = [ret EXCEPT ![p] = "l165"]
            /\ calls' = [calls EXCEPT ![p] = 1]
            /\ pre_cache' = [pre_cache EXCEPT ![p] = container_cache]
       ELSE /\ pc' = [pc EXCEPT ![p] = "l165"]
            /\ ret' = [ret EXCEPT ![p] = ""]
            /\ calls' = [calls EXCEPT ![p] = 0]
            /\ pre_cache' = [pre_cache EXCEPT ![p] = EmptyDict]
    /\ UNCHANGED <<clock, container_cache>>

\* mutant: the live cache is emptied before the runtime is asked
ListFails_ClearsCache(p) ==
    /\ pc[p] = "list"
    /\ listed' = [listed EXCEPT ![p] = "failed"]
    /\ cache' = [cache EXCEPT ![p] = EmptyDict]
    /\ container_cache' = EmptyDict
    /\ pc' = [pc EXCEPT ![p] = "done"]
    /\ result' = [result EXCEPT ![p] =
                     [kind |-> "raised", answers |-> <<>>, error |-> "DockerException"]]
    /\ UNCHANGED <<clock, query, container, now, ret, todo,
                   calls, start_cache, pre_cache, snapshot, source>>

\* populate_cache, lines 191-194: docker.containers.list() raises; nothing in
\* populate_cache or in the rule catches it.
ListFails(p) ==
    /\ pc[p] = "list"
    /\ listed' = [listed EXCEPT ![p] = "failed"]
    /\ cache' = [cache EXCEPT ![p] = EmptyDict]
    /\ Return(p, Raised("DockerException"))
    /\ UNCHANGED <<clock, container_cache, query, container, now, ret, todo,
                   calls, start_cache, pre_cache, snapshot, source>>

\* populate_cache, lines 191-194: docker.containers.list() returns s
List(p, s) ==
    /\ pc[p] = "list"
    /\ listed' = [listed EXCEPT ![p] = "ok"]
    /\ snapshot' = [snapshot EXCEPT ![p] = s]
    /\ cache' = [cache EXCEPT ![p] = EmptyDict]
    /\ todo' = [todo EXCEPT ![p] = s]
    /\ pc' = [pc EXCEPT ![p] = "loop"]
    /\ UNCHANGED <<clock, container_cache, query, container, now, ret, result,
                   calls, start_cache, pre_cache, source>>

\* mutant: the loop builds straight into self.container_cache
Visit_InPlace(p) ==
    /\ pc[p] = "loop"
    /\ todo[p] # <<>>
    /\ LET step == ProcessContainer(cache[p], Head(todo[p]), clock)
       IN  /\ cache' = [cache EXCEPT ![p] = step.cache]
           /\ container_cache' = step.cache
           /\ IF step.error # ""
              THEN /\ Return(p, Raised(step.error))
                   /\ UNCHANGED todo
              ELSE /\ todo' = [todo EXCEPT ![p] = Tail(@)]
                   /\ UNCHANGED <<pc, result>>
    /\ UNCHANGED <<clock, query, container, now, ret, ghosts>>

\* populate_cache, lines 195-230: one container of the snapshot
Visit(p) ==
    /\ pc[p] = "loop"
    /\ todo[p] # <<>>
    /\ LET step == ProcessContainer(cache[p], Head(todo[p]), clock)
       IN  /\ cache' = [cache EXCEPT ![p] = step.cache]
           /\ IF step.error # ""
              THEN /\ Return(p, Raised(step.error))
                   /\ UNCHANGED todo
              ELSE /\ todo' = [todo EXCEPT ![p] = Tail(@)]
                   /\ UNCHANGED <<pc, result>>
    /\ UNCHANGED <<clock, container_cache, query, container, now, ret, ghosts>>

\* mutant: the new mapping is merged into the old one (dict.update)
Swap_Merge(p) ==
    /\ pc[p] = "loop"
    /\ todo[p] = <<>>
    /\ container_cache' =
           [k \in DOMAIN cache[p] \cup DOMAIN container_cache |->
               IF k \in DOMAIN cache[p] THEN cache[p][k] ELSE container_cache[k]]
    /\ pc' = [pc EXCEPT ![p] = ret[p]]
    /\ UNCHANGED <<clock, query, container, now, ret, cache, todo, result, ghosts>>

\* populate_cache, line 232: self.container_cache = cache
Swap(p) ==
    /\ pc[p] = "loop"
    /\ todo[p] = <<>>
    /\ container_cache' = cache[p]
    /\ pc' = [pc EXCEPT ![p] = ret[p]]
    /\ UNCHANGED <<clock, query, container, now, ret, cache, todo, result, ghosts>>

\* line 165: if query.name in self.container_cache (else line 186)
L165(p) ==
    /\ pc[p] = "l165"
    /\ IF query[p].name \in DOMAIN container_cache
       THEN /\ pc' = [pc EXCEPT ![p] = "l166"]
            /\ UNCHANGED result
       ELSE Return(p, NoAnswer)
    /\ UNCHANGED <<clock, container_cache, locals, ghosts>>

\* lines 166-170: read the record and the clock, test staleness
L166(p) ==
    /\ pc[p] = "l166"
    /\ IF query[p].name \notin DOMAIN container_cache
       THEN /\ Return(p, Raised("KeyError"))
            /\ UNCHANGED <<container, now, ret, calls, pre_cache>>
       ELSE /\ container' = [container EXCEPT ![p] = container_cache[query[p].name]]
            /\ now' = [now EXCEPT ![p] = clock]
            /\ IF IsStale(clock, container_cache[query[p].name].last_updated)
               THEN CallPopulate(p, "l171")
               ELSE /\ pc' = [pc EXCEPT ![p] = "l176"]
                    /\ UNCHANGED <<ret, calls, pre_cache>>
            /\ UNCHANGED result
    /\ UNCHANGED <<clock, container_cache, query, cache, todo, start_cache, listed,
                   snapshot, source>>

\* line 171: if query.name in self.container_cache (else line 174)
L171(p) ==
    /\ pc[p] = "l171"
    /\ IF query[p].name \in DOMAIN container_cache
       THEN /\ pc' = [pc EXCEPT ![p] = "l172"]
            /\ UNCHANGED result
       ELSE Return(p, NoAnswer)
    /\ UNCHANGED <<clock, container_cache, locals, ghosts>>

\* mutant: line 172 left out, `container` stays the stale record
Refresh_KeepOld(old, live, name) == old

\* line 172: container = self.container_cache[query.name]
Refresh(old, live, name) == live[name]

L172(p) ==
    /\ pc[p] = "l172"
    /\ IF query[p].name \notin DOMAIN container_cache
       THEN /\ Return(p, Raised("KeyError"))
            /\ UNCHANGED container
       ELSE /\ container' = [container EXCEPT ![p] =
                                Refresh(@, container_cache, query[p].name)]
            /\ pc' = [pc EXCEPT ![p] = "l176"]
            /\ UNCHANGED result
    /\ UNCHANGED <<clock, container_cache, query, now, ret, cache, todo, ghosts>>

\* lines 176-185: the ttl from the local record, the addresses from the cache
L176(p) ==
    /\ pc[p] = "l176"
    /\ IF query[p].name \notin DOMAIN container_cache
       THEN /\ Return(p, Raised("KeyError"))
            /\ UNCHANGED source
       ELSE /\ Return(p, Answered(Response(query[p], container_cache[query[p].name],
                                           Ttl(now[p], container[p].last_updated))))
            /\ source' = [source EXCEPT ![p] = container_cache[query[p].name]]
    /\ UNCHANGED <<clock, container_cache, locals, calls, start_cache, pre_cache,
                   listed, snapshot>>

Step(p) ==
    \/ \E n \in QueryNames, t \in QueryTypes : Query(p, n, t)
    \/ ListFails(p)
    \/ \E s \in Snapshots : List(p, s)
    \/ Visit(p)
    \/ Swap(p)
    \/ L165(p)
    \/ L166(p)
    \/ L171(p)
    \/ L172(p)
    \/ L176(p)

Next ==
    \/ \E t \in Instants : Advance(t)
    \/ \E p \in Serving : Step(p)

Spec == Init /\ [][Next]_vars

\* Two invocations of the rule interleaved, as a serving layer that handles
\* queries concurrently would run them: the same steps, over fewer inputs.
ConcInstants == {0, STALE_THRESHOLD * TicksPerSec + 1}
ConcSnapshots == {<<>>, <<Web1>>, <<Web1, Web2>>}
ConcNames == {"web.shop.dcdc", "db.shop.dcdc"}

StepConc(p) ==
    \/ \E n \in ConcNames : Query(p, n, "A")
    \/ ListFails(p)
    \/ \E s \in ConcSnapshots : List(p, s)
    \/ Visit(p)
    \/ Swap(p)
    \/ L165(p)
    \/ L166(p)
    \/ L171(p)
    \/ L172(p)
    \/ L176(p)

NextConc ==
    \/ \E t \in ConcInstants : Advance(t)
    \/ \E p \in Handlers : StepConc(p)

SpecConc == Init /\ [][NextConc]_vars

\* ------------------------------------------------------------------------
\* Vocabulary of the properties
\* ------------------------------------------------------------------------

Done(p) == pc[p] = "done"

\* the query's name was in the cache when the query arrived
PresentAtStart(p) == query[p].name \in DOMAIN start_cache[p]

\* seconds-in-ticks between the record found at arrival and the clock reading
AgeAtStart(p) == now[p] - start_cache[p][query[p].name].last_updated

Threshold == STALE_THRESHOLD * TicksPerSec

\* some container of snapshot s carries the project label and the labels of name
HasLabelled(s, name) ==
    \E i \in 1..Len(s) :
        /\ LabelProject \in DOMAIN s[i].labels
        /\ CacheKey(s[i].labels) = name

\* the containers without a project label, their ids and their addresses
Unlabelled ==
    {c \in UNION {{s[i] : i \in 1..Len(s)} : s \in Snapshots} :
        LabelProject \notin DOMAIN c.labels}

UnlabelledIds == {c.id : c \in Unlabelled}

NetAddresses(c) ==
    UNION {{c.networks[i].IPAddress, c.networks[i].GlobalIPv6Address} :
              i \in 1..Len(c.networks)} \ {""}

UnlabelledAddresses == UNION {NetAddresses(c) : c \in Unlabelled}

Range(f) == {f[x] : x \in DOMAIN f}

AnswerTtls(p) == {result[p].answers[i].ttl : i \in 1..Len(result[p].answers)}

AnswerIps(p) == {result[p].answers[i].ip : i \in 1..Len(result[p].answers)}

\* the query ran the staleness-forced rebuild of line 170
StaleRebuild(p) == ret[p] = "l171"

\* ------------------------------------------------------------------------
\* C1..C10
\* ------------------------------------------------------------------------

\* C1: populate_cache is invoked at most once during any one query, also when
\* the name was absent, was rebuilt, and the rebuilt record is judged stale.
C1_AtMostOneRebuild == \A p \in Serving : calls[p] <= 1

\* C2: when docker.containers.list() fails during a query's rebuild, the
\* query still ends with a response built from the previously cached record or
\* with "no answer"; the failure never reaches the serving layer.
C2_FailureNotPropagated ==
    \A p \in Serving :
        (Done(p) /\ listed[p] = "failed") =>
            /\ result[p].kind \in {"response", "none"}
            /\ result[p].kind = "response" =>
                   /\ query[p].name \in DOMAIN pre_cache[p]
                   /\ source[p] = pre_cache[p][query[p].name]

\* C3: after a build aborted by a failing snapshot source, the live cache is
\* exactly the cache that was in place when the build started.
C3_FailedBuildKeepsCache ==
    \A p \in Serving : listed[p] = "failed" => container_cache = pre_cache[p]

C3_Witness ==
    \E p \in Serving :
        /\ listed[p] = "failed"
        /\ Done(p)
        /\ DOMAIN pre_cache[p] # {}
        /\ query[p].name \in DOMAIN container_cache

\* C4: while the snapshot call fails, a name that was resolvable in the last
\* built cache keeps resolving to its last-known addresses, however old.
C4_StaleButAvailable ==
    \A p \in Serving :
        (Done(p) /\ listed[p] = "failed" /\ PresentAtStart(p)) =>
            /\ result[p].kind = "response"
            /\ result[p].answers =
                   Response(query[p], start_cache[p][query[p].name],
                            IF result[p].answers = <<>> THEN 0
                            ELSE result[p].answers[1].ttl)

\* C5: for a query whose name is in the cache, now - last_updated <= 60 s means
\* no rebuild and an unchanged cache; now - last_updated > 60 s means exactly one
\* rebuild.
C5_StalenessGate ==
    \A p \in Serving :
        (PresentAtStart(p) /\ pc[p] \in {"list", "loop", "l171", "l172", "l176", "done"}) =>
            IF AgeAtStart(p) <= Threshold
            THEN calls[p] = 0 /\ container_cache = start_cache[p]
            ELSE calls[p] = 1

C5_Witness ==
    \E p \in Serving :
        /\ Done(p)
        /\ PresentAtStart(p)
        /\ AgeAtStart(p) > Threshold
        /\ calls[p] = 1
        /\ listed[p] = "ok"
        /\ result[p].kind = "response"

\* C6: a query whose name is absent from the cache triggers one rebuild and
\* re-checks: it returns a response if the snapshot holds a labelled container
\* for the name, and "no answer" otherwise.
C6_MissRebuildsOnce ==
    \A p \in Serving :
        (Done(p) /\ ~PresentAtStart(p) /\ listed[p] = "ok") =>
            /\ calls[p] = 1
            /\ IF HasLabelled(snapshot[p], query[p].name)
               THEN result[p].kind = "response"
               ELSE result[p].kind = "none"

\* C7: a name in the cache with no container in the next snapshot: the query
\* that finds its record older than 60 s returns "no answer", and the name is
\* gone from the cache afterwards.
C7_Disappearance ==
    \A p \in Serving :
        (/\ Done(p)
         /\ PresentAtStart(p)
         /\ AgeAtStart(p) > Threshold
         /\ listed[p] = "ok"
         /\ ~HasLabelled(snapshot[p], query[p].name)) =>
            /\ result[p].kind = "none"
            /\ query[p].name \notin DOMAIN container_cache

\* C8 as stated: every answer's ttl is an integer with 0 <= ttl < 60.
C8_TtlBelowThreshold ==
    \A p \in Serving : \A t \in AnswerTtls(p) : t \in 0..(STALE_THRESHOLD - 1)

\* C8 amended: every answer's ttl is an integer >= 0; it is at most 60 when the
\* query ran no staleness-forced rebuild, and at least 60 when it did.
C8_TtlRange ==
    \A p \in Serving : \A t \in AnswerTtls(p) :
        /\ t \in Nat
        /\ ~StaleRebuild(p) => t <= STALE_THRESHOLD
        /\ StaleRebuild(p) => t >= STALE_THRESHOLD

C8_Witness ==
    \E p \in Serving :
        /\ Done(p)
        /\ StaleRebuild(p)
        /\ STALE_THRESHOLD + 1 \in AnswerTtls(p)

C10_Exclusion ==
    /\ \A d \in {container_cache} \cup Range(cache) : \A k \in DOMAIN d :
           /\ Range(d[k].container_ids) \cap UnlabelledIds = {}
           /\ Range(d[k].ipv4_addresses) \cap UnlabelledAddresses = {}
           /\ Range(d[k].ipv6_addresses) \cap UnlabelledAddresses = {}
           /\ d[k].project_name # None
    /\ \A p \in Serving : AnswerIps(p) \cap UnlabelledAddresses = {}

C10_Witness ==
    \E p \in Serving :
        /\ Done(p)
        /\ listed[p] = "ok"
        /\ \E i \in 1..Len(snapshot[p]) : snapshot[p][i] \in Unlabelled
        /\ HasLabelled(snapshot[p], query[p].name)
        /\ container_cache = cache[p]
        /\ AnswerIps(p) # {}

\* ------------------------------------------------------------------------
\* C11..C20
\* ------------------------------------------------------------------------

\* the container carries the project label
IsLabelled(c) == LabelProject \in DOMAIN c.labels

\* the non-empty IPv4 / IPv6 addresses of a container's network attachments
V4Addresses(c) == {c.networks[i].IPAddress : i \in 1..Len(c.networks)} \ {""}

V6Addresses(c) == {c.networks[i].GlobalIPv6Address : i \in 1..Len(c.networks)} \ {""}

\* handler p's last rebuild ran to its end: the live cache is the one it built
\* from snapshot[p] (one query handled at a time)
Built(p) ==
    /\ listed[p] = "ok"
    /\ pc[p] \in {"l165", "l166", "l171", "l172", "l176", "done"}
    /\ result[p].kind # "raised"

\* handler p's populate_cache has ended, by its return or by an exception,
\* after list() gave it snapshot[p]
RebuildOver(p) ==
    /\ listed[p] = "ok"
    /\ pc[p] \in {"l165", "l166", "l171", "l172", "l176", "done"}

\* C11: after a rebuild from any snapshot, the containers sharing (service,
\* project) have exactly one record, under one key, and its address lists hold
\* every non-empty IPv4 / IPv6 address of every attachment of each of them.
C11_MergeCompleteness ==
    \A p \in Serving :
        RebuildOver(p) =>
            \A i \in 1..Len(snapshot[p]) :
                LET c == snapshot[p][i]
                    k == CacheKey(c.labels)
                IN  IsLabelled(c) =>
                        /\ k \in DOMAIN container_cache
                        /\ Cardinality({x \in DOMAIN container_cache :
                               /\ container_cache[x].container_name =
                                      Get(c.labels, LabelService, None)
                               /\ container_cache[x].project_name =
                                      c.labels[LabelProject]}) = 1
                        /\ V4Addresses(c) \subseteq Range(container_cache[k].ipv4_addresses)
                        /\ V6Addresses(c) \subseteq Range(container_cache[k].ipv6_addresses)

\* C12: an A response has one answer per entry of the record's ipv4_addresses,
\* in order, and nothing of ipv6_addresses; an AAAA response likewise from
\* ipv6_addresses alone; every answer carries the query name.
C12_RecordTypeIsolation ==
    \A p \in Serving :
        (Done(p) /\ result[p].kind = "response") =>
            LET ips == IF query[p].type = "A" THEN source[p].ipv4_addresses
                       ELSE source[p].ipv6_addresses
            IN  /\ Len(result[p].answers) = Len(ips)
                /\ \A i \in 1..Len(ips) :
                       /\ result[p].answers[i].ip = ips[i]
                       /\ result[p].answers[i].name = query[p].name
                       /\ result[p].answers[i].rtype = query[p].type

C12_Witness ==
    \E p \in Serving :
        /\ Done(p)
        /\ result[p].kind = "response"
        /\ query[p].type = "AAAA"
        /\ source[p].ipv4_addresses # <<>>
        /\ AnswerIps(p) = {"fd00::6"}

\* the keys the project-labelled containers of snapshot s give
LabelledKeys(s) == {CacheKey(s[i].labels) : i \in {j \in 1..Len(s) : IsLabelled(s[j])}}

\* the project-labelled containers of s stored under key k
Members(s, k) == {s[i] : i \in {j \in 1..Len(s) : IsLabelled(s[j]) /\ CacheKey(s[j].labels) = k}}

\* mapping c is what a whole snapshot s gives: its keys, and under each key the
\* addresses and ordinals of all its containers, and nothing else
CompleteBuild(c, s) ==
    /\ DOMAIN c = LabelledKeys(s)
    /\ \A k \in DOMAIN c :
           /\ Range(c[k].ipv4_addresses) = UNION {V4Addresses(m) : m \in Members(s, k)}
           /\ Range(c[k].ipv6_addresses) = UNION {V6Addresses(m) : m \in Members(s, k)}
           /\ Range(c[k].container_ids) \subseteq {m.id : m \in Members(s, k)}
           /\ DOMAIN c[k].container_ids =
                  {m.labels[LabelNumber] : m \in {x \in Members(s, k) : LabelNumber \in DOMAIN x.labels}}

\* C13: with queries interleaved, the live cache changes only by the single
\* step that ends a build, and then to the complete mapping of that build's
\* snapshot: a reader sees the whole old or the whole new mapping, never a
\* partly built one.
C13_AtomicReplacement ==
    [][container_cache' # container_cache =>
          \E p \in Handlers :
              /\ pc[p] = "loop"
              /\ todo[p] = <<>>
              /\ pc'[p] = ret[p]
              /\ container_cache' = cache[p]
              /\ CompleteBuild(cache[p], snapshot[p])]_vars

C13_Witness ==
    \E p, q \in Handlers :
        /\ p # q
        /\ pc[p] = "loop"
        /\ todo[p] # <<>>
        /\ DOMAIN cache[p] # {}
        /\ ~CompleteBuild(cache[p], snapshot[p])
        /\ pc[q] = "l176"
        /\ DOMAIN container_cache # {}
        /\ container_cache # cache[p]

\* the key of a container when a missing service label counts as ""
KeyWithEmptyDefault(c) ==
    Get(c.labels, LabelService, "") \o "." \o c.labels[LabelProject] \o "." \o ROOT_DOMAIN

\* C14: a project-labelled container lacking the service label or the
\* container-number label does not abort the build: the rebuild installs a
\* cache with the records of all well-formed containers of the snapshot, and a
\* missing service label gives the key an empty-string service label gives.
C14_MalformedTolerated ==
    \A p \in Serving :
        RebuildOver(p) =>
            /\ result[p].kind # "raised"
            /\ \A i \in 1..Len(snapshot[p]) :
                   LET c == snapshot[p][i]
                   IN  (IsLabelled(c) /\ LabelNumber \in DOMAIN c.labels) =>
                           /\ KeyWithEmptyDefault(c) \in DOMAIN container_cache
                           /\ c.id \in Range(container_cache[KeyWithEmptyDefault(c)].container_ids)

\* C15: after every successful rebuild the live cache holds exactly the keys of
\* the project-labelled containers of that snapshot, with their addresses and
\* ordinals only: nothing of the previous cache survives unless the snapshot
\* yields it again.
C15_WholesaleReplacement ==
    \A p \in Serving : Built(p) => CompleteBuild(container_cache, snapshot[p])

C15_Witness ==
    \E p \in Serving :
        /\ Built(p)
        /\ Done(p)
        /\ DOMAIN container_cache # {}
        /\ DOMAIN start_cache[p] \ DOMAIN container_cache # {}

\* C16 as stated: a record a response is built from is at most 60 s old at the
\* moment the response is returned.
C16_FreshAtReturn ==
    [][\A p \in Serving :
          (pc[p] = "l176" /\ pc'[p] = "done" /\ result'[p].kind = "response") =>
              clock - source'[p].last_updated <= Threshold]_vars

\* C16 amended: a record a response is built from is at most 60 s old at the
\* query's clock reading (line 167); after a staleness-forced rebuild it is the
\* record of the new cache, created at or after that reading.
C16_FreshAtReading ==
    \A p \in Serving :
        (Done(p) /\ result[p].kind = "response") =>
            /\ now[p] - container[p].last_updated <= Threshold
            /\ now[p] - source[p].last_updated <= Threshold
            /\ StaleRebuild(p) =>
                   /\ container[p] = source[p]
                   /\ source[p] = cache[p][query[p].name]
                   /\ source[p].last_updated >= now[p]

C16_Witness ==
    \E p \in Serving :
        /\ Done(p)
        /\ result[p].kind = "response"
        /\ StaleRebuild(p)
        /\ PresentAtStart(p)
        /\ source[p].last_updated > start_cache[p][query[p].name].last_updated
        /\ source[p].last_updated > now[p]

\* every container stored under the query's name in snapshot[p] has no
\* non-empty address, and there is such a container
OnlyAddressless(p) ==
    /\ Members(snapshot[p], query[p].name) # {}
    /\ \A m \in Members(snapshot[p], query[p].name) :
           V4Addresses(m) \cup V6Addresses(m) = {}

\* C17: a project-labelled container without any non-empty address still gets
\* its record, with empty address lists, and a query for its name returns a
\* response with zero answers, not "no answer".
C17_AddresslessAnswersEmpty ==
    \A p \in Serving :
        (Done(p) /\ listed[p] = "ok" /\ OnlyAddressless(p)) =>
            /\ query[p].name \in DOMAIN container_cache
            /\ container_cache[query[p].name].ipv4_addresses = <<>>
            /\ container_cache[query[p].name].ipv6_addresses = <<>>
            /\ result[p] = Answered(<<>>)

\* C18: every cache entry is stored under "<service>.<project>.<root_domain>"
\* of its own record, the root domain without leading or trailing dots, and no
\* two entries have the same (service, project).
C18_KeyInvariant ==
    \A d \in {container_cache} \cup Range(cache) :
        /\ \A k \in DOMAIN d :
               k = Format(d[k].container_name) \o "." \o d[k].project_name \o ".dcdc"
        /\ \A j, k \in DOMAIN d :
               (/\ d[j].container_name = d[k].container_name
                /\ d[j].project_name = d[k].project_name) => j = k

C18_Witness ==
    /\ DOMAIN container_cache = {"web.shop.dcdc"}
    /\ container_cache["web.shop.dcdc"].container_name = "web"
    /\ container_cache["web.shop.dcdc"].project_name = "shop"
    /\ \E p \in Serving : DOMAIN cache[p] = {"web.shop.dcdc", "db.shop.dcdc"}

\* C19: within one build a record's last_updated is the clock reading at which
\* its first container is processed, and later containers of the build leave
\* it as it is.
C19_LastUpdatedSetOnce ==
    [][\A p \in Serving :
          (pc[p] = "loop" /\ pc'[p] \in {"loop", "done"}) =>
              /\ \A k \in DOMAIN cache[p] :
                     /\ k \in DOMAIN cache'[p]
                     /\ cache'[p][k].last_updated = cache[p][k].last_updated
              /\ \A k \in DOMAIN cache'[p] \ DOMAIN cache[p] :
                     cache'[p][k].last_updated = clock]_vars

C19_Witness ==
    \E p \in Serving :
        /\ pc[p] = "loop"
        /\ todo[p] = <<>>
        /\ snapshot[p] = <<Web1, Web2>>
        /\ DOMAIN cache[p]["web.shop.dcdc"].container_ids = {"1", "2"}
        /\ cache[p]["web.shop.dcdc"].last_updated < clock

\* a lookup of the name in self.container_cache raised (lines 166, 172, 179, 183)
LookupFailed(p) ==
    /\ result[p].kind = "raised"
    /\ result[p].error = "KeyError"
    /\ todo[p] = <<>>

\* C20: when another query swaps in a new cache between a query's presence
\* check and its reads of the record, that query still completes without a
\* lookup failure, and its ttl and its addresses come from one record.
C20_ConsistentUnderSwap ==
    \A p \in Handlers :
        Done(p) =>
            /\ ~LookupFailed(p)
            /\ result[p].kind = "response" => container[p] = source[p]

====
